---- MODULE Spec2Model ----
(***************************************************************************)
(* Model of the dungeon-file decoder of src/main.rs.                       *)
(*                                                                         *)
(* A byte buffer is a sequence of numbers 0..255.  Every slice the program *)
(* takes has the form &x[k..], so a slice of the input is represented by   *)
(* the 0-based offset of its first byte in the whole buffer `raw`; its     *)
(* length is Len(raw) - offset.  Taking &raw[k..] with k > raw.len()       *)
(* panics in Rust; the model records that outcome as status "panic".       *)
(* usize is 64 bits wide, so a u32 pointer plus a small constant cannot    *)
(* overflow.                                                               *)
(***************************************************************************)
EXTENDS Integers, Sequences, FiniteSets, TLC

VARIABLES
    raw,            \* the input buffer (try_from's `raw`; the text/region under decode)
    pc,             \* control position of the decode
    status,         \* "running", "ok", "err" or "panic": how the entry point ended
    error,          \* the anyhow error returned: context chain and root message
    raw_ptrs,       \* try_from: offset of the next floor pointer
    i,              \* try_from: 1-based number of the floor being decoded
    floors,         \* try_from: the Vec of floors decoded so far
    table_ptr,      \* Floor::new: offset of the floor table
    cur,            \* parse_string: offset of the next character (its `raw`)
    value,          \* parse_string: the String built so far
    next_layout_ptr_offset, \* Floor::new: offset of the next layout pointer
    layout_ptrs,    \* Floor::new: the HashSet of layout pointers seen
    slot,           \* Floor::new: the loop variable of `for i in 0..8`
    out,            \* the lines printed so far (println!), as records
    decoded,        \* history: Layout::new calls made for the current floor
    errs,           \* history: number of Err results raised so far
    at,             \* history: the control position at which the decode ended
    returned        \* what the entry point returned with Ok: <<>> or <<v>>

vars == <<raw, pc, status, error, raw_ptrs, i, floors, table_ptr, cur, value,
          next_layout_ptr_offset, layout_ptrs, slot, out, decoded,
          errs, at, returned>>

dng == <<raw_ptrs, i, floors>>
flr == <<table_ptr, next_layout_ptr_offset, layout_ptrs, slot, decoded>>
str == <<cur, value>>

----
\* Program constants.

\* std::mem::size_of::<u32>()
PtrSize == 4
\* rows and columns of FloorPlan::tiles
Rows == 48
Cols == 32
\* for i in 0..8: layout slots of a floor table
Slots == 8
\* offset of the first layout pointer in a floor table
SlotsOffset == 8
\* size of a layout pointer table
LayoutTableSize == 20
\* string terminator and extended-code prefix
Terminator == 255
Prefix == 240

Byte == 0..255

----
\* anyhow errors: the root message and the contexts added while unwinding,
\* outermost first.

NoError == [chain |-> <<>>, msg |-> ""]
Err(m) == [chain |-> <<>>, msg |-> m]
Context(e, c) == [chain |-> <<c>> \o e.chain, msg |-> e.msg]

----
\* A reader that takes the bytes missing at the end of the buffer for zero.
parse_ptr_padded(buf, off) ==
    LET b(k) == IF off + k <= Len(buf) THEN buf[off + k] ELSE 0 IN
    [ok |-> TRUE, err |-> NoError,
     ptr |-> b(1) + 256 * b(2) + 65536 * b(3)
             + 16777216 * (IF b(4) < 128 THEN b(4) ELSE b(4) - 256)]

\* parse_ptr: the first four bytes of the slice as a little-endian u32.
\* TLC's integers are 32 bits wide, so a value v >= 2^31 is held as
\* v - 2^32 (the same 32 bits read as two's complement): distinct pointers
\* stay distinct, and such a pointer exceeds every buffer length.
parse_ptr(buf, off) ==
    IF Len(buf) - off < PtrSize
    THEN [ok |-> FALSE, err |-> Err("truncated pointer"), ptr |-> 0]
    ELSE [ok |-> TRUE, err |-> NoError,
          ptr |-> buf[off + 1] + 256 * buf[off + 2] + 65536 * buf[off + 3]
                  + 16777216 * (IF buf[off + 4] < 128 THEN buf[off + 4]
                                ELSE buf[off + 4] - 256)]

\* ptr > n, for a pointer as parse_ptr gives it and a buffer length n.
Exceeds(ptr, n) == ptr < 0 \/ ptr > n

----
\* CHARACTER_MAP: character code -> display token.
CHARACTER_MAP ==
    (\h00 :> "0") @@ (\h01 :> "1") @@ (\h02 :> "2") @@ (\h03 :> "3") @@
    (\h04 :> "4") @@ (\h05 :> "5") @@ (\h06 :> "6") @@ (\h07 :> "7") @@
    (\h08 :> "8") @@ (\h09 :> "9") @@ (\h0A :> "A") @@ (\h0B :> "B") @@
    (\h0C :> "C") @@ (\h0D :> "D") @@ (\h0E :> "E") @@ (\h0F :> "F") @@
    (\h10 :> "G") @@ (\h11 :> "H") @@ (\h12 :> "I") @@ (\h13 :> "J") @@
    (\h14 :> "K") @@ (\h15 :> "L") @@ (\h16 :> "M") @@ (\h17 :> "N") @@
    (\h18 :> "O") @@ (\h19 :> "P") @@ (\h1A :> "Q") @@ (\h1B :> "R") @@
    (\h1C :> "S") @@ (\h1D :> "T") @@ (\h1E :> "U") @@ (\h1F :> "V") @@
    (\h20 :> "W") @@ (\h21 :> "X") @@ (\h22 :> "Y") @@ (\h23 :> "Z") @@
    (\h24 :> "a") @@ (\h25 :> "b") @@ (\h26 :> "c") @@ (\h27 :> "d") @@
    (\h28 :> "e") @@ (\h29 :> "f") @@ (\h2A :> "g") @@ (\h2B :> "h") @@
    (\h2C :> "i") @@ (\h2D :> "j") @@ (\h2E :> "k") @@ (\h2F :> "l") @@
    (\h30 :> "m") @@ (\h31 :> "n") @@ (\h32 :> "o") @@ (\h33 :> "p") @@
    (\h34 :> "q") @@ (\h35 :> "r") @@ (\h36 :> "s") @@ (\h37 :> "t") @@
    (\h38 :> "u") @@ (\h39 :> "v") @@ (\h3A :> "w") @@ (\h3B :> "x") @@
    (\h3C :> "y") @@ (\h3D :> "z") @@ (\h41 :> "<SQUARE>") @@ (\h44 :> "?") @@
    (\h45 :> "!") @@ (\h46 :> "/") @@ (\h49 :> "-") @@ (\h54 :> ",") @@
    (\h55 :> ".") @@ (\h56 :> "") @@ (\h5B :> "PLUS SIGN") @@ (\hFB :> "<X>") @@
    (\hFC :> "<NEW BOX>") @@ (\hFD :> " ") @@ (\hFE :> "<ENTER>") @@ (\hF000 :> "Akira") @@
    (\hF006 :> "Digimon") @@ (\hF007 :> "you") @@ (\hF008 :> "the") @@ (\hF009 :> "Digi-Beetle") @@
    (\hF00A :> "Domain") @@ (\hF00B :> "Guard") @@ (\hF00C :> "Tamer") @@ (\hF00D :> "here") @@
    (\hF00E :> "have") @@ (\hF00F :> "Knights") @@ (\hF010 :> "and") @@ (\hF011 :> "thing") @@
    (\hF012 :> "Security") @@ (\hF013 :> "that") @@ (\hF014 :> "Bertran") @@ (\hF015 :> "Tournament") @@
    (\hF016 :> "Crimson") @@ (\hF018 :> "something") @@ (\hF019 :> "Item") @@ (\hF01A :> "Falcon") @@
    (\hF01B :> "for") @@ (\hF01C :> "That's") @@ (\hF01D :> "Commander") @@ (\hF01E :> "Blood") @@
    (\hF01F :> "Leader") @@ (\hF020 :> "Attendant") @@ (\hF021 :> "Cecilia") @@ (\hF022 :> "all") @@
    (\hF023 :> "mission") @@ (\hF024 :> "this") @@ (\hF026 :> "Archive") @@ (\hF027 :> "Black") @@
    (\hF028 :> "I'll") @@ (\hF029 :> "are") @@ (\hF02A :> "Sword") @@ (\hF02B :> "right") @@
    (\hF02C :> "Digivolve") @@ (\hF02D :> "enter") @@ (\hF02E :> "What") @@ (\hF02F :> "will") @@
    (\hF030 :> "come") @@ (\hF031 :> "You") @@ (\hF032 :> "Coliseum") @@ (\hF033 :> "about") @@
    (\hF034 :> "don't") @@ (\hF035 :> "anything") @@ (\hF037 :> "Parts") @@ (\hF038 :> "where") @@
    (\hF039 :> "The") @@ (\hF03A :> "know") @@ (\hF03B :> "Leomon") @@ (\hF03C :> "want") @@
    (\hF03D :> "Oldman") @@ (\hF03E :> "like") @@ (\hF03F :> "need") @@ (\hF040 :> "Chief") @@
    (\hF041 :> "with") @@ (\hF042 :> "Thank") @@ (\hF044 :> "Island") @@ (\hF045 :> "can") @@
    (\hF046 :> "really") @@ (\hF047 :> "Blue") @@ (\hF048 :> "time")

\* {:X} and {:02X}: upper-case hexadecimal, the latter with at least two digits.
HexDigit(d) ==
    <<"0", "1", "2", "3", "4", "5", "6", "7",
      "8", "9", "A", "B", "C", "D", "E", "F">>[d + 1]

RECURSIVE HexDigits(_)
HexDigits(n) == IF n < 16 THEN HexDigit(n) ELSE HexDigits(n \div 16) \o HexDigit(n % 16)

Hex02(n) == IF n < 16 THEN "0" \o HexDigit(n) ELSE HexDigits(n)

\* A decoder that puts the prefix byte in the low half of the code.
EncodingSwapped(first, second) == IF first = Prefix THEN second * 256 + first ELSE first

\* match first { 0xF0 => (first as u16) << 8 | (second as u16), first => first as u16 }
Encoding(first, second) == IF first = Prefix THEN first * 256 + second ELSE first

\* A decoder that emits a placeholder for a code it does not know.
LookupPlaceholder(encoding) ==
    [ok |-> TRUE, err |-> NoError,
     piece |-> IF encoding \in DOMAIN CHARACTER_MAP THEN CHARACTER_MAP[encoding] ELSE "?"]

\* CHARACTER_MAP.get(&encoding).copied().ok_or_else(...)
Lookup(encoding) ==
    IF encoding \in DOMAIN CHARACTER_MAP
    THEN [ok |-> TRUE, err |-> NoError, piece |-> CHARACTER_MAP[encoding]]
    ELSE [ok |-> FALSE, err |-> Err("illegal character 0x" \o Hex02(encoding)), piece |-> ""]

\* A decoder that takes the end of the input for the end of the string.
EndOfInput(off) == [kind |-> "none", err |-> NoError, piece |-> "", rest |-> off]

\* if raw.is_empty() { return Err(anyhow!("truncated character")); }
TruncatedCharacter(off) ==
    [kind |-> "err", err |-> Err("truncated character"), piece |-> "", rest |-> off]

\* parse_string_piece: one character of the slice at `off`.
\* kind "none" is Ok(None), "some" is Ok(Some((piece, rest))), "err" is Err.
parse_string_piece(buf, off) ==
    IF off >= Len(buf)
    THEN TruncatedCharacter(off)
    ELSE LET first == buf[off + 1] IN
         IF first = Terminator
         THEN [kind |-> "none", err |-> NoError, piece |-> "", rest |-> off + 1]
         ELSE IF first = Prefix /\ off + 1 >= Len(buf)
         THEN TruncatedCharacter(off + 1)
         ELSE LET second == IF first = Prefix THEN buf[off + 2] ELSE 0
                  rest == IF first = Prefix THEN off + 2 ELSE off + 1
                  got == Lookup(Encoding(first, second))
              IN IF got.ok
                 THEN [kind |-> "some", err |-> NoError, piece |-> got.piece, rest |-> rest]
                 ELSE [kind |-> "err", err |-> got.err, piece |-> "", rest |-> rest]

----
\* FloorPlan::new.  A try_for_each visits its items in order and stops at
\* the first Err; here a range of items is visited by visiting its lower
\* half and then, unless that met an Err, its upper half, which keeps the
\* recursion shallow.  The state carried along is the slice offset, what is
\* filled so far, and whether an Err was met.

\* The inner closure: the tile at column x (0-based) takes raw.first(), and
\* the slice advances by one byte.
FillTile(buf, st, x) ==
    IF st.off >= Len(buf) THEN [ok |-> FALSE, row |-> st.row, off |-> st.off]
    ELSE [ok |-> TRUE, row |-> [st.row EXCEPT ![x + 1] = buf[st.off + 1]],
          off |-> st.off + 1]

\* row.iter_mut().try_for_each over the columns lo .. hi - 1.
RECURSIVE FillCols(_, _, _, _)
FillCols(buf, st, lo, hi) ==
    IF hi - lo = 1 THEN FillTile(buf, st, lo)
    ELSE LET mid == (lo + hi) \div 2
             left == FillCols(buf, st, lo, mid)
         IN IF ~left.ok THEN left ELSE FillCols(buf, left, mid, hi)

FillRow(buf, off, row) == FillCols(buf, [ok |-> TRUE, row |-> row, off |-> off], 0, Cols)

\* The outer closure: the row y (0-based) is filled from the slice.
FillRowAt(buf, st, y) ==
    LET r == FillRow(buf, st.off, st.tiles[y + 1]) IN
    IF r.ok
    THEN [ok |-> TRUE, tiles |-> [st.tiles EXCEPT ![y + 1] = r.row], off |-> r.off]
    ELSE [ok |-> FALSE, tiles |-> st.tiles, off |-> r.off]

\* tiles.iter_mut().try_for_each over the rows lo .. hi - 1.
RECURSIVE FillRowRange(_, _, _, _)
FillRowRange(buf, st, lo, hi) ==
    IF hi - lo = 1 THEN FillRowAt(buf, st, lo)
    ELSE LET mid == (lo + hi) \div 2
             upper == FillRowRange(buf, st, lo, mid)
         IN IF ~upper.ok THEN upper ELSE FillRowRange(buf, upper, mid, hi)

FillRows(buf, off, grid) ==
    FillRowRange(buf, [ok |-> TRUE, tiles |-> grid, off |-> off], 0, Rows)

\* let mut tiles = [[0_u8; 32]; 48]
ZeroTiles == [y \in 1..Rows |-> [x \in 1..Cols |-> 0]]

\* A decoder that starts one byte late.
FloorPlanSkewed(buf, off) ==
    LET r == FillRows(buf, off + 1, ZeroTiles) IN
    IF r.ok
    THEN [ok |-> TRUE, err |-> NoError, tiles |-> r.tiles, end |-> r.off]
    ELSE [ok |-> FALSE, err |-> Err("truncated floor plan"), tiles |-> <<>>, end |-> r.off]

FloorPlanNew(buf, off) ==
    LET r == FillRows(buf, off, ZeroTiles) IN
    IF r.ok
    THEN [ok |-> TRUE, err |-> NoError, tiles |-> r.tiles, end |-> r.off]
    ELSE [ok |-> FALSE, err |-> Err("truncated floor plan"), tiles |-> <<>>, end |-> r.off]

----
\* Layout::new.  kind is "ok", "err" or "panic"; printed are the lines it
\* writes ("Floor plan is at {:X}"; the grid that follows is FloorPlanNew's
\* tiles at that offset and is not kept in the state).
NoLayout == [floor_plan_ptr |-> 0, warps_ptr |-> 0, chests_ptr |-> 0,
             traps_ptr |-> 0, digimon_ptr |-> 0]

LayoutNew(buf, tp) ==
    IF Exceeds(tp, Len(buf) - LayoutTableSize)
    THEN [kind |-> "err", err |-> Err("truncated layout pointer table"),
          printed |-> <<>>, layout |-> NoLayout]
    ELSE LET fpp == parse_ptr(buf, tp) IN
         IF ~fpp.ok
         THEN [kind |-> "err", err |-> Context(fpp.err, "parsing floor plan pointer"),
               printed |-> <<>>, layout |-> NoLayout]
         ELSE IF Exceeds(fpp.ptr, Len(buf))
         THEN [kind |-> "panic", err |-> NoError, printed |-> <<>>, layout |-> NoLayout]
         ELSE LET fp == FloorPlanNew(buf, fpp.ptr) IN
              IF ~fp.ok
              THEN [kind |-> "err", err |-> fp.err, printed |-> <<>>, layout |-> NoLayout]
              ELSE [kind |-> "ok", err |-> NoError,
                    printed |-> <<[line |-> "Floor plan is at", arg |-> HexDigits(fpp.ptr)]>>,
                    layout |-> [floor_plan_ptr |-> fpp.ptr,
                                warps_ptr |-> parse_ptr(buf, tp + 4).ptr,
                                chests_ptr |-> parse_ptr(buf, tp + 8).ptr,
                                traps_ptr |-> parse_ptr(buf, tp + 12).ptr,
                                digimon_ptr |-> parse_ptr(buf, tp + 16).ptr]]

----
\* How a step leaves the control state.

\* `?` on an Err: the entry point returns the error; nothing is returned with Ok.
Fail(e) ==
    /\ pc' = "done" /\ status' = "err" /\ error' = e /\ at' = pc
    /\ errs' = errs + 1 /\ returned' = <<>>

\* An out-of-range slice start: the thread panics.
Panic ==
    /\ pc' = "done" /\ status' = "panic" /\ error' = NoError /\ at' = pc
    /\ UNCHANGED <<errs, returned>>

\* Ok(v)
Return(v) ==
    /\ pc' = "done" /\ status' = "ok" /\ returned' = <<v>> /\ at' = pc
    /\ UNCHANGED <<error, errs>>

Goto(l) == pc' = l /\ UNCHANGED <<status, error, at, errs, returned>>

\* The state of the locals before the entry point runs.
Locals0 ==
    /\ status = "running" /\ error = NoError /\ at = "" /\ errs = 0
    /\ returned = <<>> /\ raw_ptrs = 0 /\ i = 1 /\ floors = <<>>
    /\ table_ptr = 0 /\ cur = 0 /\ value = "" /\ next_layout_ptr_offset = 0
    /\ layout_ptrs = {} /\ slot = 0 /\ out = <<>> /\ decoded = <<>>

----
\* parse_string on its own: one parse_string_piece per step.

\* Bounds of the strings tried.
MaxText == 4
TextBytes == {\h06, \h0A, \h24, \h42, \h56, Prefix, Terminator}
TextInputs == UNION {[1..n -> TextBytes] : n \in 0..MaxText}

TextInit == raw \in TextInputs /\ pc = "string" /\ Locals0

TextPiece ==
    /\ pc = "string"
    /\ LET r == parse_string_piece(raw, cur) IN
       IF r.kind = "some"
       THEN value' = value \o r.piece /\ cur' = r.rest /\ Goto("string")
       ELSE IF r.kind = "none"
       THEN Return(value) /\ UNCHANGED str
       ELSE Fail(r.err) /\ UNCHANGED str
    /\ UNCHANGED <<raw, dng, flr, out>>

TextNext == TextPiece

SpecText == TextInit /\ [][TextNext]_vars

----
\* FloorPlan::new on its own: a region starting at offset `cur` of a buffer.

\* Bounds of the regions tried.
PlanSlack == 3
MaxSeed == 3
MaxPlanOff == 1
PlanBuf(len, seed) == [k \in 1..len |-> ((k - 1) * (2 * seed + 1) + seed) % 256] \o <<>>
PlanAvail == {0} \cup ((Rows * Cols - PlanSlack)..(Rows * Cols + PlanSlack))

PlanInit ==
    /\ \E off \in 0..MaxPlanOff, n \in PlanAvail, seed \in 0..MaxSeed :
          raw = PlanBuf(off + n, seed) /\ cur = off
    /\ pc = "plan"
    /\ status = "running" /\ error = NoError /\ at = "" /\ errs = 0
    /\ returned = <<>> /\ raw_ptrs = 0 /\ i = 1 /\ floors = <<>>
    /\ table_ptr = 0 /\ value = "" /\ next_layout_ptr_offset = 0
    /\ layout_ptrs = {} /\ slot = 0 /\ out = <<>> /\ decoded = <<>>

PlanDecode ==
    /\ pc = "plan"
    /\ LET r == FloorPlanNew(raw, cur) IN
       IF r.ok THEN Return([tiles |-> r.tiles]) ELSE Fail(r.err)
    /\ UNCHANGED <<raw, dng, flr, str, out>>

PlanNext == PlanDecode

SpecPlan == PlanInit /\ [][PlanNext]_vars

----
\* Dungeon::try_from(&[u8]) and what it calls, one loop iteration per step.

\* A loop that steps over two pointers at a time, and one that never steps.
AdvanceTwo(off) == off + 2 * PtrSize
AdvanceNone(off) == off

\* raw_ptrs = &raw_ptrs[4..]
AdvancePtrs(off) == off + PtrSize

\* if floor_ptr == 0 { break; }
IsTerminator(ptr) == ptr = 0

\* A loop that decodes every slot.
FreshAlways(ptr, seen) == TRUE

\* layout_ptrs.insert(layout_ptr): true when the pointer was not in the set
Fresh(ptr, seen) == ptr \notin seen

\* A loop that counts a failed floor and goes on with the next pointer.
FloorFailedSkip(e) ==
    /\ pc' = "floor_ptr" /\ errs' = errs + 1
    /\ UNCHANGED <<status, error, at, returned>>

\* Floor::new(raw, floor_ptr).context(format!("parsing floor {}", i))?
FloorFailed(e) == Fail(Context(e, "parsing floor " \o ToString(i)))

\* The Floor pushed on `floors`.  Floor {} has no fields; the entry keeps,
\* as history, the table it was decoded from, its title and the layout
\* pointers Layout::new was called on.
FloorDone == [table |-> table_ptr, title |-> value, layouts |-> decoded']

\* The loop head of try_from: parse_ptr(raw_ptrs), advance, test for zero.
ReadFloorPtr ==
    /\ pc = "floor_ptr"
    /\ LET r == parse_ptr(raw, raw_ptrs) IN
       IF ~r.ok
       THEN /\ Fail(Context(r.err, "parsing next floor pointer"))
            /\ UNCHANGED <<raw_ptrs, table_ptr>>
       ELSE /\ raw_ptrs' = AdvancePtrs(raw_ptrs)
            /\ IF IsTerminator(r.ptr)
               THEN Return("Dungeon") /\ UNCHANGED table_ptr
               ELSE Goto("floor") /\ table_ptr' = r.ptr
    /\ UNCHANGED <<raw, i, floors, str, next_layout_ptr_offset, layout_ptrs,
                   slot, decoded, out>>

\* Floor::new up to the call of parse_string: the name pointer.
FloorBegin ==
    /\ pc = "floor"
    /\ IF Exceeds(table_ptr, Len(raw))
       THEN Panic /\ UNCHANGED str
       ELSE LET r == parse_ptr(raw, table_ptr) IN
            IF ~r.ok
            THEN FloorFailed(Context(r.err, "parsing name pointer")) /\ UNCHANGED str
            ELSE IF Exceeds(r.ptr, Len(raw))
            THEN Panic /\ UNCHANGED str
            ELSE Goto("name") /\ cur' = r.ptr /\ value' = ""
    /\ UNCHANGED <<raw, dng, flr, out>>

\* One iteration of parse_string's loop on the name; at the terminator, the
\* title is printed and the floor table is checked for its first 8 bytes.
NamePiece ==
    /\ pc = "name"
    /\ LET r == parse_string_piece(raw, cur) IN
       IF r.kind = "some"
       THEN /\ value' = value \o r.piece /\ cur' = r.rest /\ Goto("name")
            /\ UNCHANGED <<out, next_layout_ptr_offset, layout_ptrs, slot, decoded>>
       ELSE IF r.kind = "err"
       THEN /\ FloorFailed(Context(r.err, "parsing name"))
            /\ UNCHANGED <<str, out, next_layout_ptr_offset, layout_ptrs, slot, decoded>>
       ELSE /\ out' = Append(out, [line |-> "Floor:", arg |-> value])
            /\ UNCHANGED str
            /\ IF Len(raw) < table_ptr + SlotsOffset
               THEN /\ FloorFailed(Err("floor table truncated before layout pointers"))
                    /\ UNCHANGED <<next_layout_ptr_offset, layout_ptrs, slot, decoded>>
               ELSE /\ Goto("slots")
                    /\ next_layout_ptr_offset' = table_ptr + SlotsOffset
                    /\ layout_ptrs' = {} /\ slot' = 0 /\ decoded' = <<>>
    /\ UNCHANGED <<raw, dng, table_ptr>>

\* One iteration of `for i in 0..8`; after the eighth, Ok(Self {}) is pushed
\* on `floors` and try_from's loop continues.
LayoutSlot ==
    /\ pc = "slots"
    /\ LET r == parse_ptr(raw, next_layout_ptr_offset) IN
       IF ~r.ok
       THEN /\ FloorFailed(Context(r.err, "parsing layout pointer"))
            /\ UNCHANGED <<dng, next_layout_ptr_offset, layout_ptrs, slot, decoded, out>>
       ELSE LET fresh == Fresh(r.ptr, layout_ptrs)
                layout == LayoutNew(raw, r.ptr)
            IN /\ next_layout_ptr_offset' = next_layout_ptr_offset + PtrSize
               /\ layout_ptrs' = layout_ptrs \cup {r.ptr}
               /\ decoded' = IF fresh THEN Append(decoded, r.ptr) ELSE decoded
               /\ IF fresh /\ layout.kind = "panic"
                  THEN Panic /\ UNCHANGED <<dng, slot, out>>
                  ELSE IF fresh /\ layout.kind = "err"
                  THEN /\ FloorFailed(Context(layout.err,
                                              "parsing layout " \o ToString(slot + 1)))
                       /\ UNCHANGED <<dng, slot, out>>
                  ELSE /\ out' = IF fresh THEN out \o layout.printed ELSE out
                       /\ slot' = slot + 1
                       /\ IF slot + 1 = Slots
                          THEN /\ floors' = Append(floors, FloorDone)
                               /\ i' = i + 1
                               /\ Goto("floor_ptr")
                               /\ UNCHANGED raw_ptrs
                          ELSE Goto("slots") /\ UNCHANGED dng
    /\ UNCHANGED <<raw, table_ptr, str>>

Next == ReadFloorPtr \/ FloorBegin \/ NamePiece \/ LayoutSlot

----
\* The buffers tried.  Each is laid out as
\*   floor pointer list | floor table A | floor table B | three names |
\*   five layout tables | filler | floor table T
\* and then cut short by `cut` bytes, so that table T may be truncated.  A
\* floor plan may overlap everything else: the plan at offset 0 always has
\* Rows * Cols bytes available.

\* Bounds of the buffers tried.
MaxFloors == 2
PatLen == 3
MaxCut == 40

LE4(v) == <<v % 256, (v \div 256) % 256, (v \div 65536) % 256, (v \div 16777216) % 256>>

RECURSIVE Ptrs(_)
Ptrs(vals) == IF vals = <<>> THEN <<>> ELSE LE4(Head(vals)) \o Ptrs(Tail(vals))

TableLen == SlotsOffset + Slots * PtrSize
FullLen == Rows * Cols + MaxCut
HeadLen == PtrSize * (MaxFloors + 1)

NameA == <<\h0A, \h24, Terminator>>
NameBad == <<\h0A, \h42, Terminator>>
NameB == <<Prefix, \h06, \hFD, \h56, \h01, Terminator>>

FloorA == HeadLen
FloorB == FloorA + TableLen
AtNameA == FloorB + TableLen
AtNameBad == AtNameA + Len(NameA)
AtNameB == AtNameBad + Len(NameBad)
LayA == AtNameB + Len(NameB)
LayB == LayA + LayoutTableSize
LayFit == LayB + LayoutTableSize
LayPanic == LayFit + LayoutTableSize
LayShort == LayPanic + LayoutTableSize
FrontLen == LayShort + LayoutTableSize
FloorT == FullLen - TableLen

FloorTable(name, slots) == LE4(name) \o LE4(0) \o Ptrs(slots)
LayoutTable(fp) == Ptrs(<<fp, 1, 2, 3, FullLen + 9>>)
Filler == [k \in 1..(FloorT - FrontLen) |-> (7 * k) % 251] \o <<>>

Build(p) ==
    LET len == FullLen - p.cut
        all == Ptrs(p.fps)
               \o FloorTable(p.aname, [k \in 1..Slots |-> p.pat[((k - 1) % PatLen) + 1]])
               \o FloorTable(AtNameB, [k \in 1..Slots |-> IF k % 2 = 1 THEN LayA ELSE LayB])
               \o NameA \o NameBad \o NameB
               \o LayoutTable(0) \o LayoutTable(0) \o LayoutTable(MaxCut)
               \o LayoutTable(len + 1) \o LayoutTable(MaxCut + 1)
               \o Filler
               \o FloorTable(p.tname, [k \in 1..Slots |-> IF k = 2 THEN p.tslot ELSE LayA])
    IN SubSeq(all, 1, len)

FloorPtrChoice == {0, FloorA, FloorB, PtrSize, FullLen, FullLen + 1}
SlotChoice == {LayA, LayB, LayFit, LayPanic, LayShort}
NameChoice == {AtNameBad, AtNameB, FullLen - 2, FullLen, FullLen + 1}
TableChoice == {FullLen - LayoutTableSize + 1, FullLen + 1, -1}

Default ==
    [fps |-> [k \in 1..(MaxFloors + 1) |-> IF k = 1 THEN FloorA ELSE 0],
     aname |-> AtNameA, pat |-> [k \in 1..PatLen |-> LayA],
     tname |-> AtNameA, tslot |-> LayA, cut |-> 0]

Inputs ==
    {[Default EXCEPT !.fps = f] : f \in [1..(MaxFloors + 1) -> FloorPtrChoice]}
    \cup {[Default EXCEPT !.pat = q] : q \in [1..PatLen -> SlotChoice]}
    \cup {[Default EXCEPT !.pat = [k \in 1..PatLen |-> IF k = 1 THEN LayA ELSE t]] :
            t \in TableChoice}
    \cup {[Default EXCEPT !.aname = n] : n \in NameChoice}
    \cup {[Default EXCEPT !.fps = [k \in 1..(MaxFloors + 1) |-> IF k = 1 THEN FloorT ELSE 0],
                          !.tname = n, !.tslot = t, !.cut = c] :
            n \in {AtNameA, AtNameBad}, t \in {LayA, LayPanic}, c \in 0..MaxCut}

\* try_from's locals at the head of its loop, after its first println!.
Init ==
    /\ \E p \in Inputs : raw = Build(p)
    /\ pc = "floor_ptr"
    /\ status = "running" /\ error = NoError /\ at = "" /\ errs = 0
    /\ returned = <<>> /\ raw_ptrs = 0 /\ i = 1 /\ floors = <<>>
    /\ table_ptr = 0 /\ cur = 0 /\ value = "" /\ next_layout_ptr_offset = 0
    /\ layout_ptrs = {} /\ slot = 0 /\ decoded = <<>>
    /\ out = <<[line |-> "Dungeon raw file is", arg |-> ToString(Len(raw))]>>

Spec == Init /\ [][Next]_vars

----
\* Properties of parse_string (SpecText).  The characters of a run are
\* described without running the decoder: a chain is a set of offsets that
\* starts at 0 and in which every offset but the last holds a complete,
\* mapped code that is not the terminator and is followed by the offset
\* right after that code.

IsTruncated(e) ==
    e.msg \in {"truncated pointer", "truncated character", "truncated floor plan",
               "truncated layout pointer table",
               "floor table truncated before layout pointers"}

IsIllegalCharacter(e) ==
    \E c \in Byte \cup {Prefix * 256 + b : b \in Byte} :
        e.msg = "illegal character 0x" \o Hex02(c)

Last(S) == CHOOSE t \in S : \A p \in S : p <= t
WidthAt(p) == IF raw[p + 1] = Prefix THEN 2 ELSE 1
CodeAt(p) == IF raw[p + 1] = Prefix THEN Prefix * 256 + raw[p + 2] ELSE raw[p + 1]
Complete(p) == p < Len(raw) /\ p + WidthAt(p) <= Len(raw)

IsChain(S) ==
    /\ 0 \in S
    /\ \A p \in S \ {Last(S)} :
          /\ Complete(p) /\ raw[p + 1] # Terminator
          /\ CodeAt(p) \in DOMAIN CHARACTER_MAP
          /\ p + WidthAt(p) \in S
    /\ \A q \in S \ {0} : \E p \in S : Complete(p) /\ q = p + WidthAt(p)

Chains == {S \in SUBSET (0..Len(raw)) : IsChain(S)}

RECURSIVE Tokens(_)
Tokens(S) ==
    IF S = {} THEN ""
    ELSE LET p == CHOOSE q \in S : \A r \in S : q <= r
         IN CHARACTER_MAP[CodeAt(p)] \o Tokens(S \ {p})

\* C5: a run of mapped codes followed by 0xFF decodes to the concatenation
\* of the codes' tokens in input order; one byte is consumed per single-byte
\* code and two per extended code; what follows the terminator is ignored.
C5_ValidRunDecodes ==
    pc = "done" =>
       /\ \A S \in Chains :
             LET t == Last(S) IN
             (t < Len(raw) /\ raw[t + 1] = Terminator) =>
                /\ status = "ok"
                /\ returned = <<Tokens(S \ {t})>>
                /\ cur = t
                /\ t = Cardinality({p \in S \ {t} : raw[p + 1] # Prefix})
                       + 2 * Cardinality({p \in S \ {t} : raw[p + 1] = Prefix})
       /\ (Len(raw) >= 3 /\ SubSeq(raw, 1, 3) = <<\h0A, \h24, Terminator>>)
             => returned = <<"Aa">>
       /\ (Len(raw) >= 3 /\ SubSeq(raw, 1, 3) = <<Prefix, \h06, Terminator>>)
             => returned = <<"Digimon">>

C5_Witness ==
    /\ pc = "done" /\ status = "ok"
    /\ raw = <<Prefix, \h06, \h0A, Terminator>>
    /\ returned = <<"DigimonA">> /\ cur = 3

\* C6: when the bytes run out before a terminator is read at a character
\* boundary (empty input, mapped codes without 0xFF, or a final 0xF0 with no
\* second byte) the decode fails with "truncated character" and returns no
\* string.
C6_TruncatedRunFails ==
    pc = "done" =>
       \A S \in Chains :
          LET t == Last(S) IN
          (t = Len(raw) \/ (t = Len(raw) - 1 /\ raw[t + 1] = Prefix)) =>
             /\ status = "err" /\ returned = <<>>
             /\ error.msg = "truncated character" /\ IsTruncated(error)

C6_Witness ==
    /\ pc = "done" /\ status = "err" /\ raw = <<\h0A, Prefix>>
    /\ error.msg = "truncated character" /\ value = "A"

\* C7: the first code absent from CHARACTER_MAP fails the decode with
\* "illegal character 0x.." naming that code; nothing is emitted for it and
\* it is not skipped.  The byte after 0xF0 is always the second byte of the
\* code, also when it is 0xFF.
C7_UnmappedCodeFails ==
    pc = "done" =>
       /\ \A S \in Chains :
             LET t == Last(S) IN
             (Complete(t) /\ raw[t + 1] # Terminator
              /\ CodeAt(t) \notin DOMAIN CHARACTER_MAP) =>
                /\ status = "err" /\ returned = <<>>
                /\ error.msg = "illegal character 0x" \o Hex02(CodeAt(t))
                /\ IsIllegalCharacter(error) /\ ~IsTruncated(error)
                /\ cur = t /\ value = Tokens(S \ {t})
       /\ (Len(raw) >= 1 /\ raw[1] = \h42) => error.msg = "illegal character 0x42"
       /\ (Len(raw) >= 2 /\ SubSeq(raw, 1, 2) = <<Prefix, Terminator>>)
             => error.msg = "illegal character 0xF0FF"

C7_Witness ==
    /\ pc = "done" /\ status = "err"
    /\ raw = <<\h0A, Prefix, Terminator>>
    /\ error.msg = "illegal character 0xF0FF" /\ value = "A"

----
\* Properties of FloorPlan::new (SpecPlan); the region starts at offset cur.

\* C8: with at least Rows * Cols bytes available the decode succeeds and
\* tile (r, c) is the region's byte r * Cols + c; with fewer it fails with
\* "truncated floor plan".
C8_FloorPlanRowMajor ==
    pc = "done" =>
       IF Len(raw) - cur >= Rows * Cols
       THEN /\ status = "ok"
            /\ DOMAIN returned[1].tiles = 1..Rows
            /\ \A r \in 0..(Rows - 1) :
                  /\ DOMAIN returned[1].tiles[r + 1] = 1..Cols
                  /\ \A c \in 0..(Cols - 1) :
                        returned[1].tiles[r + 1][c + 1] = raw[cur + r * Cols + c + 1]
       ELSE /\ status = "err" /\ returned = <<>>
            /\ error.msg = "truncated floor plan" /\ IsTruncated(error)

C8_Witness ==
    /\ pc = "done" /\ status = "ok" /\ cur = 1
    /\ Len(raw) - cur = Rows * Cols
    /\ returned[1].tiles[Rows][Cols] = raw[Len(raw)]
    /\ returned[1].tiles[2][1] # returned[1].tiles[1][2]

----
\* Properties of Dungeon::try_from (Spec, SpecLive).

\* The little-endian word at an offset of the buffer, read directly.
WordAt(off) ==
    raw[off + 1] + 256 * raw[off + 2] + 65536 * raw[off + 3]
    + 16777216 * (IF raw[off + 4] < 128 THEN raw[off + 4] ELSE raw[off + 4] - 256)

InFloor == pc = "done" /\ at \in {"floor", "name", "slots"}

\* C1: the decode never panics; a floor pointer past the end of the buffer
\* ends it with a TruncatedData error.
C1_PastEndIsTruncatedData ==
    /\ status # "panic"
    /\ (pc = "done" /\ at = "floor" /\ Exceeds(table_ptr, Len(raw)))
          => (status = "err" /\ IsTruncated(error))

\* C2: for every floor decoded, Layout::new was called once per distinct
\* value among its eight slots, at the first slot holding the value and in
\* slot order, whatever earlier floors decoded; a successful decode printed
\* one floor plan per such call.
SlotValue(f, k) == WordAt(f.table + SlotsOffset + PtrSize * (k - 1))
FirstSlots(f) ==
    {k \in 1..Slots : \A j \in 1..(k - 1) : SlotValue(f, j) # SlotValue(f, k)}

RECURSIVE Calls(_)
Calls(fs) == IF fs = <<>> THEN 0 ELSE Len(Head(fs).layouts) + Calls(Tail(fs))

C2_DedupPerFloor ==
    /\ \A n \in DOMAIN floors :
          LET f == floors[n] IN
          /\ Len(f.layouts) = Cardinality({SlotValue(f, k) : k \in 1..Slots})
          /\ \A m \in DOMAIN f.layouts :
                \E k \in FirstSlots(f) :
                   /\ f.layouts[m] = SlotValue(f, k)
                   /\ m = Cardinality({j \in FirstSlots(f) : j <= k})
    /\ (pc = "done" /\ status = "ok") =>
          Cardinality({n \in DOMAIN out : out[n].line = "Floor plan is at"}) = Calls(floors)

C2_Witness ==
    /\ pc = "done" /\ status = "ok" /\ Len(floors) = 2
    /\ floors[1].layouts = <<LayA>>
    /\ floors[2].layouts = <<LayA, LayB>>
    /\ SubSeq(raw, LayA + 1, LayA + LayoutTableSize)
          = SubSeq(raw, LayB + 1, LayB + LayoutTableSize)

C4_FailFast ==
    /\ [](errs > 0 => (/\ pc = "done" /\ status = "err" /\ errs = 1
                        /\ returned = <<>> /\ error # NoError))
    /\ [][errs > 0 => UNCHANGED vars]_vars

C4_Witness ==
    /\ pc = "done" /\ status = "err" /\ Len(floors) = 1 /\ returned = <<>>
    /\ error.chain = <<"parsing floor 2", "parsing name pointer">>
    /\ error.msg = "truncated pointer"

\* C9: a floor table is short when it starts inside the buffer and fewer
\* than TableLen bytes remain from its start.
ShortTable(tp) == ~Exceeds(tp, Len(raw)) /\ Len(raw) - tp < TableLen

\* C9 as claimed: the decode of a floor with a short table ends with a
\* TruncatedData error.
C9_ShortTableIsTruncatedData ==
    (InFloor /\ ShortTable(table_ptr)) => (status = "err" /\ IsTruncated(error))

\* C9 as amended: a floor with a short table is never decoded; its decode
\* ends with a TruncatedData error, or with an illegal-character error raised
\* by the name, or by the panic of a name or floor-plan pointer past the end
\* of the buffer.
C9_ShortTableNeverDecodes ==
    /\ \A n \in DOMAIN floors : ~ShortTable(floors[n].table)
    /\ (pc # "done" /\ pc # "floor_ptr" /\ ShortTable(table_ptr)) => status = "running"
    /\ (InFloor /\ ShortTable(table_ptr)) =>
          \/ status = "err" /\ IsTruncated(error)
          \/ status = "err" /\ at = "name" /\ IsIllegalCharacter(error)
          \/ /\ status = "panic" /\ at = "floor"
             /\ Exceeds(WordAt(table_ptr), Len(raw))
          \/ /\ status = "panic" /\ at = "slots"
             /\ Exceeds(WordAt(decoded[Len(decoded)]), Len(raw))

C9_Witness ==
    /\ InFloor /\ at = "slots" /\ status = "err"
    /\ Len(raw) - table_ptr = TableLen - 1
    /\ error.chain = <<"parsing floor 1", "parsing layout pointer">>
    /\ error.msg = "truncated pointer"

\* C10: the decode ends.  Every step that does not end it lowers a measure
\* that is never negative: the bytes left behind the floor-pointer offset,
\* then the stage within the floor, then the slots or the string bytes left.
\* The floor-pointer offset grows by PtrSize at every pointer read, so at
\* most Len(raw) \div PtrSize floors are decoded; a floor makes at most Slots
\* layout decodes; the string offset grows at every piece and stays within
\* the buffer.
StageSpan == Len(raw) + Slots + 4

Stage ==
    IF pc = "floor" THEN StageSpan - 1
    ELSE IF pc = "name" THEN Slots + 2 + (Len(raw) - cur)
    ELSE IF pc = "slots" THEN Slots + 1 - slot
    ELSE 0

Measure == (Len(raw) - raw_ptrs) * StageSpan + Stage

C10_Terminates ==
    /\ [](/\ pc \in {"floor_ptr", "floor", "name", "slots", "done"}
          /\ Measure >= 0 /\ Stage < StageSpan
          /\ Len(floors) <= Len(raw) \div PtrSize
          /\ PtrSize * Len(floors) <= raw_ptrs /\ raw_ptrs <= Len(raw)
          /\ Len(decoded) <= Slots /\ slot <= Slots
          /\ cur <= Len(raw))
    /\ [][pc' # "done" => Measure' < Measure]_vars
    /\ [][(pc = "floor_ptr" /\ status' # "err") => raw_ptrs' = raw_ptrs + PtrSize]_vars
    /\ [][(pc = "name" /\ pc' = "name") => cur' > cur]_vars

\* A floor pointer that points back into the floor-pointer list.
C10_Witness ==
    /\ pc = "done" /\ table_ptr = PtrSize /\ at = "name"
    /\ cur > table_ptr /\ value # ""

====
